---- MODULE Spec2Model ----
(***************************************************************************)
(* Model of geofa_sync: the VK store (sync/vk.py), the GeoFA store         *)
(* (sync/geofa.py) and the sync orchestrator (sync/db_sync.py).            *)
(*                                                                         *)
(* A container is a function layer name -> layer; a layer is the sequence  *)
(* of its records.  geopandas.read_file gives a layer a RangeIndex, so the *)
(* FID of a record is its position counted from 0 (position p of the TLA+  *)
(* sequence is FID p - 1).  A DataFrame is a sequence of [idx, rec] rows:  *)
(* idx is the index label of the row, rec its attributes.                  *)
(*                                                                         *)
(* Text of the objekt_id column is a sequence of character codes, so that  *)
(* str.strip() is computed and not assumed.  Other text (layer names,      *)
(* temanavn, navn, geometry types) is opaque and kept as TLA+ strings.     *)
(* Timestamps are integers counted in ticks, TicksPerSecond to a second.   *)
(***************************************************************************)
EXTENDS Integers, Sequences, FiniteSets, TLC

\* ------------------------------------------------------------------ bounds
\* resolution of a timestamp below one second
TicksPerSecond == 2
\* records the VK container may hold in the sync specification
MaxRecords == 5
\* runs of sync_new_objects in one behaviour
MaxRuns == 2
\* rows of the DataFrame given to the unsynced filter, and length of a text
MaxFilterRows == 2
MaxTextLen == 2
\* seconds the timestamps of the date filter range over
MaxSeconds == 3
\* records of the point layer the date filter scans
MaxDateRows == 2
\* direct calls of create_object in one behaviour
MaxCreates == 3
\* records of the VK container update_objekt_id is called on directly
MaxPatchRecords == 3
\* records of a layer the cloners copy, layers of a source container of
\* clone_geofa_database, and cloner calls in one behaviour
MaxCloneRecords == 1
MaxSourceLayers == 2
MaxCloneRuns == 2
\* close calls one store object receives
MaxCloses == 3

\* --------------------------------------------------------------- constants
\* cvr_kode the bounded date filter requires
VejleCvr == 29189900
\* kommunekode is not modelled; temakode values of the three themes
TemaPkt == 5800
TemaFl == 5801
TemaLi == 5802
\* character codes: python's str.strip() removes these
Whitespace == {9, 10, 11, 12, 13, 32}
\* first code of the tokens that stand for the text of a uuid4
UuidBase == 1000

\* python None / NaN / NaT of a column, by column type
NoneId == << -1 >>
None == "None"
NaN == 0 - 1
NaT == 0 - 1

\* the text str(uuid.uuid4()) of the n-th identifier drawn
UuidText(n) == << UuidBase + n >>

\* the three layers of the VK container, in the order they are scanned
all_layers == << "GeoFA_5800_fac_pkt", "GeoFA_5801_fac_fl", "GeoFA_5802_fac_li" >>
VKLayerNames == { all_layers[k] : k \in 1..Len(all_layers) }
\* the three layers of the GeoFA container
GeoFALayerNames == { "5800_fac_pkt", "5801_fac_fl", "5802_fac_li" }

\* datetime(2000, 1, 1), the threshold used when no since_date is given
Y2000 == 1 * TicksPerSecond

\* ----------------------------------------------------------- pure helpers
\* make_datetime(t.year, ..., t.second): the sub-second part is dropped
make_datetime(t) == t - (t % TicksPerSecond)

RECURSIVE lstrip(_)
lstrip(s) == IF s # << >> /\ Head(s) \in Whitespace THEN lstrip(Tail(s)) ELSE s

RECURSIVE rstrip(_)
rstrip(s) ==
  IF s # << >> /\ s[Len(s)] \in Whitespace THEN rstrip(SubSeq(s, 1, Len(s) - 1)) ELSE s

\* the comparison made on the text as it is, without strip()
strip_nothing(s) == s

\* str.strip()
strip(s) == rstrip(lstrip(s))

\* gpd.read_file(path, layer=...): the rows of a layer under a fresh RangeIndex
read_file(layer) == [p \in 1..Len(layer) |-> [idx |-> p - 1, rec |-> layer[p]]]

\* pd.concat(frames, ignore_index=True): rows in order under a fresh RangeIndex
RECURSIVE Flatten(_)
Flatten(frames) == IF frames = << >> THEN << >> ELSE Head(frames) \o Flatten(Tail(frames))

concat_ignore_index(frames) ==
  LET rows == Flatten(frames)
  IN  [p \in 1..Len(rows) |-> [idx |-> p - 1, rec |-> rows[p].rec]]

\* DatabaseSync._get_layer_name_from_temakode: the layer name is text built
\* from the code; codes other than the three themes give a name of no layer
LayerNameOther == "GeoFA_other_fac_li"
_get_layer_name_from_temakode(temakode) ==
  IF temakode = TemaPkt THEN "GeoFA_5800_fac_pkt"
  ELSE IF temakode = TemaFl THEN "GeoFA_5801_fac_fl"
  ELSE IF temakode = TemaLi THEN "GeoFA_5802_fac_li"
  ELSE LayerNameOther

\* DatabaseSync._filter_objects_without_id
NeedsId(r) == r.rec.objekt_id = NoneId \/ strip(r.rec.objekt_id) = << >>
_filter_objects_without_id(df) == SelectSeq(df, NeedsId)


\* ------------------------------------------------------------ GeoFA store
\* geometry.geom_type values create_object accepts, by target layer
PointTypes == { "Point", "MultiPoint" }
PolygonTypes == { "Polygon", "MultiPolygon" }
LineTypes == { "LineString", "MultiLineString" }
SupportedTypes == PointTypes \cup PolygonTypes \cup LineTypes

\* the routing with MultiPoint listed among the polygon shapes
_infer_layer_multipoint_as_polygon(geometry) ==
  IF geometry.geom_type = "Point" THEN "5800_fac_pkt"
  ELSE IF geometry.geom_type \in PolygonTypes \cup { "MultiPoint" } THEN "5801_fac_fl"
  ELSE IF geometry.geom_type \in LineTypes THEN "5802_fac_li"
  ELSE ""

\* GeoFA._infer_layer_from_geometry; "" stands for the ValueError it raises
_infer_layer_from_geometry(geometry) ==
  IF geometry.geom_type \in PointTypes THEN "5800_fac_pkt"
  ELSE IF geometry.geom_type \in PolygonTypes THEN "5801_fac_fl"
  ELSE IF geometry.geom_type \in LineTypes THEN "5802_fac_li"
  ELSE ""

\* temanavn_map.get(temakode)
temanavn_map(temakode) ==
  IF temakode = TemaPkt THEN "t_5800_fac_pkt_t"
  ELSE IF temakode = TemaFl THEN "t_5801_fac_fl_t"
  ELSE IF temakode = TemaLi THEN "t_5802_fac_li_t"
  ELSE None

\* {col: None for col in gdf.columns}: the schema of a layer, all null
NullRow ==
  [ objekt_id |-> NoneId, temakode |-> NaN, temanavn |-> None, oprettet |-> NaT,
    cvr_kode |-> NaN, navn |-> None, geometry |-> [geom_type |-> None, coords |-> 0] ]

\* the record create_object appends
NewGeoFARow(new_object_id, temakode, geometry) ==
  [ NullRow EXCEPT !.objekt_id = new_object_id, !.temakode = temakode,
                   !.geometry = geometry, !.temanavn = temanavn_map(temakode) ]

\* create_object writing new_gdf in place of updated_gdf: the layer is
\* replaced by the new row alone
create_object_writes_new_row_only(g, n, temakode, geometry) ==
  LET new_object_id == UuidText(n + 1)
      layer_name == _infer_layer_from_geometry(geometry)
  IN  IF layer_name \notin DOMAIN g
      THEN [ raised |-> TRUE, id |-> NoneId, geofa |-> g, next_uuid |-> n + 1 ]
      ELSE [ raised |-> FALSE, id |-> new_object_id, next_uuid |-> n + 1,
             geofa |-> [ g EXCEPT ![layer_name] =
                           << NewGeoFARow(new_object_id, temakode, geometry) >> ] ]

\* GeoFA.create_object on container g with n identifiers drawn so far: what
\* it returns (id), whether it raises instead, and the container afterwards.
\* uuid4 is drawn first, so a call that raises has used an identifier too.
create_object(g, n, temakode, geometry) ==
  LET new_object_id == UuidText(n + 1)
      layer_name == _infer_layer_from_geometry(geometry)
  IN  IF layer_name \notin DOMAIN g
      THEN [ raised |-> TRUE, id |-> NoneId, geofa |-> g, next_uuid |-> n + 1 ]
      ELSE [ raised |-> FALSE, id |-> new_object_id, next_uuid |-> n + 1,
             geofa |-> [ g EXCEPT ![layer_name] =
                           Append(@, NewGeoFARow(new_object_id, temakode, geometry)) ] ]

\* --------------------------------------------------------------- VK store
\* the optional arguments of get_objects_by_date when they are not given
NoEnd == NaT
NoLayer == None

\* the rows of one layer that pass the date filter, under the layer's index
FilterLayer(layer, start, end) ==
  LET InWindow(r) ==
        /\ r.rec.oprettet # NaT
        /\ r.rec.oprettet >= start
        /\ end # NoEnd => (r.rec.oprettet <= end /\ r.rec.cvr_kode = VejleCvr)
  IN  SelectSeq(read_file(layer), InWindow)

\* VK.get_objects_by_date: the frames of the scanned layers that are not
\* empty, concatenated under a fresh index
FilteredFrames(v, start, end, layer_name) ==
  LET layers_to_query == IF layer_name # NoLayer THEN << layer_name >> ELSE all_layers
      s == make_datetime(start)
      e == IF end # NoEnd THEN make_datetime(end) ELSE end
  IN  [ k \in 1..Len(layers_to_query) |->
          LET f == FilterLayer(v[layers_to_query[k]], s, e)
          IN  [ p \in 1..Len(f) |->
                  [ idx |-> f[p].idx, rec |-> f[p].rec, layer |-> layers_to_query[k] ] ] ]

get_objects_by_date(v, start, end, layer_name) ==
  concat_ignore_index(FilteredFrames(v, start, end, layer_name))

\* where each row of get_objects_by_date's result was read from: its layer and
\* the index it had there, before concat replaced the index
RowOrigins(v, start, end, layer_name) ==
  LET rows == Flatten(FilteredFrames(v, start, end, layer_name))
  IN  [ p \in 1..Len(rows) |-> [ layer |-> rows[p].layer, fid |-> rows[p].idx ] ]

\* update_objekt_id with the assignment made to the whole column
\* (gdf["objekt_id"] = ... in place of gdf.loc[fid, "objekt_id"] = ...)
update_objekt_id_whole_column(v, layer_name, fid, new_objekt_id) ==
  IF layer_name \notin DOMAIN v THEN [ raised |-> TRUE, vk |-> v ]
  ELSE IF fid \notin 0..(Len(v[layer_name]) - 1) THEN [ raised |-> TRUE, vk |-> v ]
  ELSE [ raised |-> FALSE,
         vk |-> [ v EXCEPT ![layer_name] =
                    [ p \in 1..Len(@) |-> [ @[p] EXCEPT !.objekt_id = new_objekt_id ] ] ] ]

\* update_objekt_id with the range test off by one (fid > len(gdf))
update_objekt_id_range_off_by_one(v, layer_name, fid, new_objekt_id) ==
  IF layer_name \notin DOMAIN v THEN [ raised |-> TRUE, vk |-> v ]
  ELSE IF fid \notin 0..Len(v[layer_name]) THEN [ raised |-> TRUE, vk |-> v ]
  ELSE [ raised |-> FALSE,
         vk |-> [ v EXCEPT ![layer_name] =
                    [ p \in 1..Len(@) |->
                        IF p = fid + 1 THEN [ @[p] EXCEPT !.objekt_id = new_objekt_id ]
                        ELSE @[p] ] ] ]

\* update_objekt_id writing back the selected row alone
\* (gdf.loc[[fid]].to_file(...) in place of gdf.to_file(...))
update_objekt_id_writes_patched_row_only(v, layer_name, fid, new_objekt_id) ==
  IF layer_name \notin DOMAIN v THEN [ raised |-> TRUE, vk |-> v ]
  ELSE IF fid \notin 0..(Len(v[layer_name]) - 1) THEN [ raised |-> TRUE, vk |-> v ]
  ELSE [ raised |-> FALSE,
         vk |-> [ v EXCEPT ![layer_name] =
                    << [ @[fid + 1] EXCEPT !.objekt_id = new_objekt_id ] >> ] ]

\* VK.update_objekt_id on container v: whether it raises (it returns nothing)
\* and the container afterwards
update_objekt_id(v, layer_name, fid, new_objekt_id) ==
  IF layer_name \notin DOMAIN v THEN [ raised |-> TRUE, vk |-> v ]
  ELSE LET gdf == read_file(v[layer_name])
       IN  IF fid \notin { gdf[p].idx : p \in 1..Len(gdf) }
           THEN [ raised |-> TRUE, vk |-> v ]
           ELSE [ raised |-> FALSE,
                  vk |-> [ v EXCEPT ![layer_name] =
                             [ p \in 1..Len(gdf) |->
                                 IF gdf[p].idx = fid
                                 THEN [ gdf[p].rec EXCEPT !.objekt_id = new_objekt_id ]
                                 ELSE gdf[p].rec ] ] ]

\* the first half of update_objekt_id: the layer is read, the fid looked up
\* and the identifier set in the frame in memory
update_read(v, layer_name, fid, new_objekt_id) ==
  IF layer_name \notin DOMAIN v THEN [ raised |-> TRUE, gdf |-> << >> ]
  ELSE LET gdf == read_file(v[layer_name])
       IN  IF fid \notin { gdf[p].idx : p \in 1..Len(gdf) }
           THEN [ raised |-> TRUE, gdf |-> << >> ]
           ELSE [ raised |-> FALSE,
                  gdf |-> [ p \in 1..Len(gdf) |->
                              IF gdf[p].idx = fid
                              THEN [ gdf[p] EXCEPT !.rec.objekt_id = new_objekt_id ]
                              ELSE gdf[p] ] ]

\* the write as an update of the one row in the stored layer
update_write_row_only(v, layer_name, fid, gdf) ==
  [ v EXCEPT ![layer_name] =
      [ p \in 1..Len(@) |-> IF p = fid + 1 /\ p <= Len(gdf) THEN gdf[p].rec ELSE @[p] ] ]

\* the second half of update_objekt_id: gdf.to_file writes the frame that
\* was read in place of the layer
update_write(v, layer_name, fid, gdf) ==
  [ v EXCEPT ![layer_name] = [ p \in 1..Len(gdf) |-> gdf[p].rec ] ]

\* the row VK.create_dummy_object appends, and the layer it picks
DummyLayer(temakode) ==
  IF temakode = TemaPkt THEN "GeoFA_5800_fac_pkt"
  ELSE IF temakode = TemaFl THEN "GeoFA_5801_fac_fl"
  ELSE "GeoFA_5802_fac_li"

DummyTemanavn(temakode) ==
  IF temakode = TemaPkt THEN "Friluftsliv facilitet - punkt"
  ELSE IF temakode = TemaFl THEN "Friluftsliv facilitet - flade"
  ELSE "Friluftsliv facilitet - linje"

DummyRow(temakode, geometry, navn, objekt_id, oprettet) ==
  [ objekt_id |-> objekt_id, temakode |-> temakode, temanavn |-> DummyTemanavn(temakode),
    oprettet |-> oprettet, cvr_kode |-> VejleCvr, navn |-> navn, geometry |-> geometry ]


\* ------------------------------------------------------------------ state
VARIABLES
  vk,              \* the VK container: layer name -> records
  geofa,           \* the GeoFA container: layer name -> records
  next_uuid,       \* identifiers uuid4 has handed out
  pc,              \* phase of the current run of sync_new_objects
  since_date,      \* argument of the current run
  vk_objects,      \* local of sync_new_objects: the fetched DataFrame
  needs_sync,      \* local: the rows without a GeoFA id
  already_synced,  \* local
  sync_details,    \* local: the entries _create_objects_in_geofa collected
  i,               \* position of the loop that is running
  success_count,   \* local of _update_vk_with_geofa_ids
  error_count,     \* local of _update_vk_with_geofa_ids
  result,          \* the SyncResult returned
  runs,            \* runs completed
  origin,          \* history: layer and FID each row of vk_objects was read from
  vk_before,       \* history: the VK container when the run started
  written,         \* history: identifiers the runs wrote into VK records
  call,            \* argument and outcome of the last direct call of a store method
  fs,              \* the files the cloners read and write
  clone_log,       \* history: the cloner calls made, with the files before and after
  conn,            \* the engine of each store object and the dispose calls it received
  procs,           \* two callers of update_objekt_id: position and locals of each
  trace,           \* history: the reads and writes of the two callers, in order
  last_run         \* history: threshold, error count and stores of the run before

vars ==
  << vk, geofa, next_uuid, pc, since_date, vk_objects, needs_sync, already_synced,
     sync_details, i, success_count, error_count, result, runs, origin, vk_before,
     written, call, fs, clone_log, conn, procs, trace, last_run >>

\* the state outside the sync run and the direct calls
env == << fs, clone_log, conn, procs, trace, last_run >>

store == << vk, geofa, next_uuid >>
locals ==
  << since_date, vk_objects, needs_sync, already_synced, sync_details, i,
     success_count, error_count, result, origin, vk_before >>

\* SyncResult(...)
SyncResult(total, already, newly, errors, details) ==
  [ total_objects |-> total, already_synced |-> already, newly_synced |-> newly,
    errors |-> errors, sync_details |-> details ]

NoSince == NaT
NoCall == [ op |-> "none" ]
EmptyVK == [ l \in VKLayerNames |-> << >> ]
EmptyGeoFA == [ l \in GeoFALayerNames |-> << >> ]

LocalsInit ==
  /\ since_date = NoSince
  /\ vk_objects = << >>
  /\ needs_sync = << >>
  /\ already_synced = 0
  /\ sync_details = << >>
  /\ i = 0
  /\ success_count = 0
  /\ error_count = 0
  /\ result = SyncResult(0, 0, 0, 0, << >>)
  /\ origin = << >>
  /\ vk_before = EmptyVK

\* the natural geometry of a theme, and one create_object does not support
Geom(t) == [ geom_type |-> t, coords |-> 0 ]
ThemeGeometry(temakode) ==
  IF temakode = TemaPkt THEN Geom("Point")
  ELSE IF temakode = TemaFl THEN Geom("Polygon")
  ELSE Geom("LineString")
Unsupported == Geom("GeometryCollection")

OldTime == Y2000 - TicksPerSecond
NewTime == 2 * TicksPerSecond

\* an objekt_id GeoFA issued before the model starts ("ab")
KnownId == << 97, 98 >>

\* the records a cloned VK layer is drawn from: unsynced records of the
\* layer's theme.  The point layer also holds records created before 2000
\* and records with a geometry create_object rejects, the polygon layer
\* records created before 2000, the line layer records synced earlier.
ClonedRows(temakode) ==
  { DummyRow(temakode, ThemeGeometry(temakode), "Test Object", << >>, NewTime) }
  \cup ( IF temakode \in { TemaPkt, TemaFl }
         THEN { DummyRow(temakode, ThemeGeometry(temakode), "Test Object", << >>, OldTime) }
         ELSE {} )
  \cup ( IF temakode = TemaPkt
         THEN { DummyRow(temakode, Unsupported, "Test Object", << >>, NewTime) }
         ELSE {} )
  \cup ( IF temakode = TemaLi
         THEN { DummyRow(temakode, ThemeGeometry(temakode), "Test Object", KnownId, NewTime) }
         ELSE {} )

ClonedVKs ==
  UNION { UNION { UNION {
    { [ l \in VKLayerNames |->
          IF l = "GeoFA_5800_fac_pkt" THEN pa
          ELSE IF l = "GeoFA_5801_fac_fl" THEN pb ELSE pc_ ] :
        pa \in [ 1..a -> ClonedRows(TemaPkt) ],
        pb \in [ 1..b -> ClonedRows(TemaFl) ],
        pc_ \in [ 1..c -> ClonedRows(TemaLi) ] } :
    c \in 0..(MaxRecords - a - b) } : b \in 0..(MaxRecords - a) } : a \in 0..MaxRecords }

\* ---------------------------------------------------------------- cloners
\* A file of the cloners: a container is the list of its layers in the order
\* fiona.listlayers gives them, a layer the sequence of its records.
NoFile == [ exists |-> FALSE, layers |-> << >> ]
Container(layers) == [ exists |-> TRUE, layers |-> layers ]
Layer(name, rows) == [ name |-> name, rows |-> rows ]

\* fiona.listlayers(path) as a set, and the records of one layer
LayerNamesOf(file) == { file.layers[k].name : k \in 1..Len(file.layers) }
HasLayer(file, name) == file.exists /\ name \in LayerNamesOf(file)
RowsOf(file, name) ==
  file.layers[CHOOSE k \in 1..Len(file.layers) : file.layers[k].name = name].rows

\* os.path.exists(path), os.remove(path)
os_path_exists(file) == file.exists
os_remove(file) == NoFile

\* the records of a DataFrame, without its index
records(gdf) == [ p \in 1..Len(gdf) |-> gdf[p].rec ]

\* to_file opened in append mode: the records are added to those of the layer
to_file_append(file, layer, gdf) ==
  IF ~file.exists THEN Container(<< Layer(layer, records(gdf)) >>)
  ELSE IF layer \in LayerNamesOf(file)
  THEN [ file EXCEPT !.layers =
           [ k \in 1..Len(@) |->
               IF @[k].name = layer THEN Layer(layer, @[k].rows \o records(gdf)) ELSE @[k] ] ]
  ELSE [ file EXCEPT !.layers = Append(@, Layer(layer, records(gdf))) ]

\* gdf.to_file(path, layer=layer, driver="GPKG"): the file is created when
\* absent, the layer added when absent and replaced when present
to_file(file, layer, gdf) ==
  IF ~file.exists THEN Container(<< Layer(layer, records(gdf)) >>)
  ELSE IF layer \in LayerNamesOf(file)
  THEN [ file EXCEPT !.layers =
           [ k \in 1..Len(@) |->
               IF @[k].name = layer THEN Layer(layer, records(gdf)) ELSE @[k] ] ]
  ELSE [ file EXCEPT !.layers = Append(@, Layer(layer, records(gdf))) ]

\* A schema file: absent, not JSON, JSON without "name", or a descriptor
\* whose name is the list of its dot-separated segments.
NoSchema == [ exists |-> FALSE, json |-> FALSE, has_name |-> FALSE, name |-> << >> ]
BadJson == [ exists |-> TRUE, json |-> FALSE, has_name |-> FALSE, name |-> << >> ]
NoNameKey == [ exists |-> TRUE, json |-> TRUE, has_name |-> FALSE, name |-> << >> ]
Descriptor(table) ==
  [ exists |-> TRUE, json |-> TRUE, has_name |-> TRUE, name |-> << "prefix", table >> ]

\* the schema files of clone_vk_database and the feature class each names
schema_files ==
  << "geofa_5800_fac_pkt.json", "geofa_5801_fac_fl.json", "geofa_5802_fac_li.json" >>
SchemaPaths == { schema_files[k] : k \in 1..Len(schema_files) }
TableOf(path) ==
  CASE path = "geofa_5800_fac_pkt.json" -> "GeoFA_5800_fac_pkt"
    [] path = "geofa_5801_fac_fl.json" -> "GeoFA_5801_fac_fl"
    [] path = "geofa_5802_fac_li.json" -> "GeoFA_5802_fac_li"

\* the source containers of clone_geofa_database
geofa_gpkg_files == << "5800_fac_pkt.gpkg", "5801_fac_fl.gpkg", "5802_fac_li.gpkg" >>
SourcePaths == { geofa_gpkg_files[k] : k \in 1..Len(geofa_gpkg_files) }
\* os.path.basename(gpkg_file).replace(".gpkg", "")
basename_without_gpkg(path) ==
  CASE path = "5800_fac_pkt.gpkg" -> "5800_fac_pkt"
    [] path = "5801_fac_fl.gpkg" -> "5801_fac_fl"
    [] path = "5802_fac_li.gpkg" -> "5802_fac_li"

\* GeodatabaseCloner._clone_layer on the files fsys: the files afterwards and
\* whether an exception leaves the method.  A failure before table_name is
\* bound makes the except block fail on its own message (table_name is
\* read there), and that error is not caught.
_clone_layer(fsys, json_schema_path) ==
  LET schema == fsys.schema[json_schema_path]
  IN  IF ~schema.exists \/ ~schema.json \/ ~schema.has_name
      THEN [ fs |-> fsys, raised |-> TRUE ]
      ELSE LET table_name == schema.name[Len(schema.name)]
           IN  IF ~HasLayer(fsys.gdb, table_name)
               THEN [ fs |-> fsys, raised |-> FALSE ]
               ELSE [ fs |-> [ fsys EXCEPT !.vk_out =
                                 to_file(@, table_name, read_file(RowsOf(fsys.gdb, table_name))) ],
                      raised |-> FALSE ]

\* the loop of run_clone ending at the first schema file that is missing
RECURSIVE clone_schema_files_stops_at_missing(_, _)
clone_schema_files_stops_at_missing(fsys, k) ==
  IF k > Len(schema_files) THEN [ fs |-> fsys, raised |-> FALSE ]
  ELSE IF os_path_exists(fsys.schema[schema_files[k]])
  THEN LET r == _clone_layer(fsys, schema_files[k])
       IN  IF r.raised THEN r ELSE clone_schema_files_stops_at_missing(r.fs, k + 1)
  ELSE [ fs |-> fsys, raised |-> FALSE ]

\* the loop of run_clone from the k-th schema file on
RECURSIVE clone_schema_files(_, _)
clone_schema_files(fsys, k) ==
  IF k > Len(schema_files) THEN [ fs |-> fsys, raised |-> FALSE ]
  ELSE IF os_path_exists(fsys.schema[schema_files[k]])
  THEN LET r == _clone_layer(fsys, schema_files[k])
       IN  IF r.raised THEN r ELSE clone_schema_files(r.fs, k + 1)
  ELSE clone_schema_files(fsys, k + 1)

\* GeodatabaseCloner.run_clone
run_clone(fsys) ==
  IF ~os_path_exists(fsys.gdb) THEN [ fs |-> fsys, raised |-> FALSE ]
  ELSE clone_schema_files(
         [ fsys EXCEPT !.vk_out = IF os_path_exists(@) THEN os_remove(@) ELSE @ ], 1)

\* the inner loop of clone_geofa_database: every layer of one source
\* container is written under the name derived from the file
RECURSIVE copy_layers(_, _, _)
copy_layers(out, layers, layer_name) ==
  IF layers = << >> THEN out
  ELSE copy_layers(to_file(out, layer_name, read_file(Head(layers).rows)),
                   Tail(layers), layer_name)

RECURSIVE copy_layers_append(_, _, _)
copy_layers_append(out, layers, layer_name) ==
  IF layers = << >> THEN out
  ELSE copy_layers_append(to_file_append(out, layer_name, read_file(Head(layers).rows)),
                          Tail(layers), layer_name)

\* the outer loop from the k-th source container on; fiona.listlayers raises
\* for a container that does not exist and nothing catches it
RECURSIVE clone_gpkg_files(_, _)
clone_gpkg_files(fsys, k) ==
  IF k > Len(geofa_gpkg_files) THEN [ fs |-> fsys, raised |-> FALSE ]
  ELSE LET gpkg_file == fsys.src[geofa_gpkg_files[k]]
       IN  IF ~gpkg_file.exists THEN [ fs |-> fsys, raised |-> TRUE ]
           ELSE clone_gpkg_files(
                  [ fsys EXCEPT !.geofa_out =
                      copy_layers(@, gpkg_file.layers,
                                  basename_without_gpkg(geofa_gpkg_files[k])) ],
                  k + 1)

RECURSIVE clone_gpkg_files_append(_, _)
clone_gpkg_files_append(fsys, k) ==
  IF k > Len(geofa_gpkg_files) THEN [ fs |-> fsys, raised |-> FALSE ]
  ELSE LET gpkg_file == fsys.src[geofa_gpkg_files[k]]
       IN  IF ~gpkg_file.exists THEN [ fs |-> fsys, raised |-> TRUE ]
           ELSE clone_gpkg_files_append(
                  [ fsys EXCEPT !.geofa_out =
                      copy_layers_append(@, gpkg_file.layers,
                                         basename_without_gpkg(geofa_gpkg_files[k])) ],
                  k + 1)

\* the clone made incremental: the output file is kept and the records are
\* appended to its layers
clone_geofa_database_incremental(fsys) == clone_gpkg_files_append(fsys, 1)

\* clone_geofa_database
clone_geofa_database(fsys) ==
  clone_gpkg_files(
    [ fsys EXCEPT !.geofa_out = IF os_path_exists(@) THEN os_remove(@) ELSE @ ], 1)

\* no file at any path
NoFiles ==
  [ gdb |-> NoFile, schema |-> [ path \in SchemaPaths |-> NoSchema ], vk_out |-> NoFile,
    src |-> [ path \in SourcePaths |-> NoFile ], geofa_out |-> NoFile ]

\* ------------------------------------------------------ store connections
\* the store objects of a program: a VK and a GeoFA object of its own and
\* the two a DatabaseSync creates in __enter__
StoreObjects == { "vk", "geofa", "db_sync.vk", "db_sync.geofa" }
\* an object not constructed yet, and one just constructed: self.engine is
\* the engine create_engine returned, which no close call has disposed
NotConstructed == [ constructed |-> FALSE, engine |-> None, closes |-> 0, disposes |-> 0 ]
Connected == [ constructed |-> TRUE, engine |-> "Engine", closes |-> 0, disposes |-> 0 ]

\* ------------------------------------------- two callers of update_objekt_id
Callers == { 1, 2 }
NotCalled ==
  [ pc |-> "idle", layer_name |-> None, fid |-> NaN, new_objekt_id |-> NoneId, gdf |-> << >> ]

\* no run of sync_new_objects has returned yet
NoRun == [ since |-> NaT, errors |-> NaN, vk |-> << >>, geofa |-> << >> ]

EnvInit ==
  /\ fs = NoFiles
  /\ clone_log = << >>
  /\ conn = [ o \in StoreObjects |-> NotConstructed ]
  /\ procs = [ p \in Callers |-> NotCalled ]
  /\ trace = << >>
  /\ last_run = NoRun

\* both containers after cloning: VK with the records of the legacy
\* geodatabase, GeoFA with its layers and no record yet
Init ==
  /\ EnvInit
  /\ vk \in ClonedVKs
  /\ geofa = EmptyGeoFA
  /\ next_uuid = 0
  /\ pc = "Idle"
  /\ runs = 0
  /\ written = {}
  /\ call = NoCall
  /\ LocalsInit

Total(v) == Len(v["GeoFA_5800_fac_pkt"]) + Len(v["GeoFA_5801_fac_fl"]) + Len(v["GeoFA_5802_fac_li"])

\* inputs of the sync specification
SinceDates == { NoSince, OldTime }
Temakodes == { TemaPkt, TemaFl, TemaLi }

\* VK.create_dummy_object(temakode, geometry, navn, clear_objekt_id, oprettet)
CreateDummyObject(temakode, geometry, clear_objekt_id, oprettet) ==
  /\ pc = "Idle"
  /\ Total(vk) < MaxRecords
  /\ LET objekt_id == IF clear_objekt_id THEN << >> ELSE UuidText(next_uuid + 1)
     IN  /\ vk' = [ vk EXCEPT ![DummyLayer(temakode)] =
                      Append(@, DummyRow(temakode, geometry, "Test Object", objekt_id, oprettet)) ]
         /\ next_uuid' = IF clear_objekt_id THEN next_uuid ELSE next_uuid + 1
  /\ UNCHANGED << geofa, pc, runs, written, call, locals >>
  /\ UNCHANGED env

\* sync_new_objects is called
SyncStart(since) ==
  /\ pc = "Idle"
  /\ runs < MaxRuns
  /\ pc' = "Fetching"
  /\ since_date' = since
  /\ vk_before' = vk
  /\ UNCHANGED << store, runs, written, call, vk_objects, needs_sync, already_synced,
                  sync_details, i, success_count, error_count, result, origin >>
  /\ UNCHANGED env

\* step 1: get_objects_by_date, and the return when nothing was found
Fetch ==
  /\ pc = "Fetching"
  /\ LET start == IF since_date # NoSince THEN since_date ELSE Y2000
         objs == get_objects_by_date(vk, start, NoEnd, NoLayer)
     IN  /\ vk_objects' = objs
         /\ origin' = RowOrigins(vk, start, NoEnd, NoLayer)
         /\ IF Len(objs) = 0
            THEN pc' = "Done" /\ result' = SyncResult(0, 0, 0, 0, << >>)
            ELSE pc' = "Filtering" /\ UNCHANGED result
  /\ UNCHANGED << store, runs, written, call, since_date, needs_sync, already_synced,
                  sync_details, i, success_count, error_count, vk_before >>
  /\ UNCHANGED env

\* step 2: _filter_objects_without_id, and the return when nothing needs an id
Filter ==
  /\ pc = "Filtering"
  /\ LET ns == _filter_objects_without_id(vk_objects)
         already == Len(vk_objects) - Len(ns)
     IN  /\ needs_sync' = ns
         /\ already_synced' = already
         /\ IF Len(ns) = 0
            THEN /\ pc' = "Done"
                 /\ result' = SyncResult(Len(vk_objects), already, 0, 0, << >>)
                 /\ UNCHANGED i
            ELSE pc' = "Creating" /\ i' = 1 /\ UNCHANGED result
  /\ UNCHANGED << store, runs, written, call, since_date, vk_objects, sync_details,
                  success_count, error_count, origin, vk_before >>
  /\ UNCHANGED env

\* the loop of step 3 with the exception not caught per item: the first
\* failure ends the loop
CreateStepAbort ==
  /\ pc = "Creating"
  /\ i <= Len(needs_sync)
  /\ LET idx == needs_sync[i].idx
         row == needs_sync[i].rec
         c == create_object(geofa, next_uuid, row.temakode, row.geometry)
     IN  /\ next_uuid' = c.next_uuid
         /\ geofa' = c.geofa
         /\ sync_details' =
              IF ~c.raised
              THEN Append(sync_details,
                     [ fid |-> idx,
                       layer_name |-> _get_layer_name_from_temakode(row.temakode),
                       new_objekt_id |-> c.id,
                       navn |-> row.navn,
                       temakode |-> row.temakode ])
              ELSE sync_details
         /\ i' = IF c.raised THEN Len(needs_sync) + 1 ELSE i + 1
  /\ UNCHANGED << vk, pc, runs, written, call, since_date, vk_objects, needs_sync,
                  already_synced, success_count, error_count, result, origin, vk_before >>
  /\ UNCHANGED env

\* step 3 with the patch-back made at once for each created object instead
\* of after the loop
CreateStepPatchingAtOnce ==
  /\ pc = "Creating"
  /\ i <= Len(needs_sync)
  /\ LET idx == needs_sync[i].idx
         row == needs_sync[i].rec
         c == create_object(geofa, next_uuid, row.temakode, row.geometry)
         layer_name == _get_layer_name_from_temakode(row.temakode)
     IN  /\ next_uuid' = c.next_uuid
         /\ geofa' = c.geofa
         /\ sync_details' =
              IF ~c.raised
              THEN Append(sync_details,
                     [ fid |-> idx, layer_name |-> layer_name, new_objekt_id |-> c.id,
                       navn |-> row.navn, temakode |-> row.temakode ])
              ELSE sync_details
         /\ vk' = IF ~c.raised THEN update_objekt_id(vk, layer_name, idx, c.id).vk ELSE vk
  /\ i' = i + 1
  /\ UNCHANGED << pc, runs, written, call, since_date, vk_objects, needs_sync,
                  already_synced, success_count, error_count, result, origin, vk_before >>
  /\ UNCHANGED env

\* step 3: one iteration of the loop of _create_objects_in_geofa
CreateStep ==
  /\ pc = "Creating"
  /\ i <= Len(needs_sync)
  /\ LET idx == needs_sync[i].idx
         row == needs_sync[i].rec
     IN  IF row.temakode = NaN
         THEN \* int(row["temakode"]) raises
              UNCHANGED << geofa, next_uuid, sync_details >>
         ELSE LET c == create_object(geofa, next_uuid, row.temakode, row.geometry)
              IN  /\ next_uuid' = c.next_uuid
                  /\ geofa' = c.geofa
                  /\ sync_details' =
                       IF ~c.raised
                       THEN Append(sync_details,
                              [ fid |-> idx,
                                layer_name |-> _get_layer_name_from_temakode(row.temakode),
                                new_objekt_id |-> c.id,
                                navn |-> row.navn,
                                temakode |-> row.temakode ])
                       ELSE sync_details
  /\ i' = i + 1
  /\ UNCHANGED << vk, pc, runs, written, call, since_date, vk_objects, needs_sync,
                  already_synced, success_count, error_count, result, origin, vk_before >>
  /\ UNCHANGED env

\* the loop of step 3 is over: step 4 starts
CreateEnd ==
  /\ pc = "Creating"
  /\ i > Len(needs_sync)
  /\ pc' = "PatchingBack"
  /\ i' = 1
  /\ success_count' = 0
  /\ error_count' = 0
  /\ UNCHANGED << store, runs, written, call, since_date, vk_objects, needs_sync,
                  already_synced, sync_details, result, origin, vk_before >>
  /\ UNCHANGED env

\* the loop of step 4 with the try around the loop: the first failure is
\* counted and ends the loop
PatchStepAbort ==
  /\ pc = "PatchingBack"
  /\ i <= Len(sync_details)
  /\ LET e == sync_details[i]
         u == update_objekt_id(vk, e.layer_name, e.fid, e.new_objekt_id)
     IN  /\ vk' = u.vk
         /\ IF ~u.raised
            THEN /\ success_count' = success_count + 1
                 /\ written' = written \cup { e.new_objekt_id }
                 /\ i' = i + 1
                 /\ UNCHANGED error_count
            ELSE /\ error_count' = error_count + 1
                 /\ i' = Len(sync_details) + 1
                 /\ UNCHANGED << success_count, written >>
  /\ UNCHANGED << geofa, next_uuid, pc, runs, call, since_date, vk_objects, needs_sync,
                  already_synced, sync_details, result, origin, vk_before >>
  /\ UNCHANGED env

\* step 4: one iteration of the loop of _update_vk_with_geofa_ids
PatchStep ==
  /\ pc = "PatchingBack"
  /\ i <= Len(sync_details)
  /\ LET e == sync_details[i]
         u == update_objekt_id(vk, e.layer_name, e.fid, e.new_objekt_id)
     IN  /\ vk' = u.vk
         /\ IF ~u.raised
            THEN /\ success_count' = success_count + 1
                 /\ written' = written \cup { e.new_objekt_id }
                 /\ UNCHANGED error_count
            ELSE /\ error_count' = error_count + 1
                 /\ UNCHANGED << success_count, written >>
  /\ i' = i + 1
  /\ UNCHANGED << geofa, next_uuid, pc, runs, call, since_date, vk_objects, needs_sync,
                  already_synced, sync_details, result, origin, vk_before >>
  /\ UNCHANGED env

\* the loop of step 4 is over: the SyncResult is built and returned
PatchEnd ==
  /\ pc = "PatchingBack"
  /\ i > Len(sync_details)
  /\ pc' = "Done"
  /\ result' = SyncResult(Len(vk_objects), already_synced, success_count, error_count,
                          sync_details)
  /\ UNCHANGED << store, runs, written, call, since_date, vk_objects, needs_sync,
                  already_synced, sync_details, i, success_count, error_count, origin,
                  vk_before >>
  /\ UNCHANGED env

\* the caller has the result; the locals of the run are gone
Return ==
  /\ pc = "Done"
  /\ pc' = "Idle"
  /\ runs' = runs + 1
  /\ since_date' = NoSince
  /\ vk_objects' = << >>
  /\ needs_sync' = << >>
  /\ already_synced' = 0
  /\ sync_details' = << >>
  /\ i' = 0
  /\ success_count' = 0
  /\ error_count' = 0
  /\ result' = SyncResult(0, 0, 0, 0, << >>)
  /\ origin' = << >>
  /\ vk_before' = EmptyVK
  /\ UNCHANGED << store, written, call >>
  /\ last_run' = [ since |-> since_date, errors |-> result.errors, vk |-> vk,
                   geofa |-> geofa ]
  /\ UNCHANGED << fs, clone_log, conn, procs, trace >>

Next ==
  \/ CreateDummyObject(TemaPkt, Geom("Point"), TRUE, NewTime)
  \/ \E s \in SinceDates : SyncStart(s)
  \/ Fetch
  \/ Filter
  \/ CreateStep
  \/ CreateEnd
  \/ PatchStep
  \/ PatchEnd
  \/ Return

Spec == Init /\ [][Next]_vars


\* ============================================ direct calls of the methods
\* every variable of the sync run at rest
AtRest ==
  /\ EnvInit
  /\ next_uuid = 0
  /\ pc = "Idle"
  /\ runs = 0
  /\ written = {}
  /\ call = NoCall
  /\ LocalsInit

\* sequences over S of length at most n
SeqsUpTo(S, n) == UNION { [ 1..k -> S ] : k \in 0..n }

\* ---- DatabaseSync._filter_objects_without_id on a DataFrame
TextChars == { 32, 9, 97 }
IdTexts == { NoneId } \cup SeqsUpTo(TextChars, MaxTextLen)
FilterFrames ==
  { read_file([ p \in 1..Len(ids) |->
                  DummyRow(TemaPkt, Geom("Point"), "Test Object", ids[p], NewTime) ]) :
      ids \in SeqsUpTo(IdTexts, MaxFilterRows) }

FilterInit ==
  /\ EnvInit
  /\ vk = EmptyVK
  /\ geofa = EmptyGeoFA
  /\ next_uuid = 0
  /\ pc = "Idle"
  /\ runs = 0
  /\ written = {}
  /\ call = NoCall
  /\ since_date = NoSince
  /\ vk_objects \in FilterFrames
  /\ needs_sync = << >>
  /\ already_synced = 0
  /\ sync_details = << >>
  /\ i = 0
  /\ success_count = 0
  /\ error_count = 0
  /\ result = SyncResult(0, 0, 0, 0, << >>)
  /\ origin = << >>
  /\ vk_before = EmptyVK

FilterCall ==
  /\ pc = "Idle"
  /\ needs_sync' = _filter_objects_without_id(vk_objects)
  /\ pc' = "Returned"
  /\ UNCHANGED << store, runs, written, call, since_date, vk_objects, already_synced,
                  sync_details, i, success_count, error_count, result, origin, vk_before >>
  /\ UNCHANGED env

FilterNext == FilterCall
SpecFilter == FilterInit /\ [][FilterNext]_vars

\* ---- VK.get_objects_by_date with start, end and layer_name
OtherCvr == VejleCvr + 1
DateTicks == 0..(MaxSeconds * TicksPerSecond - 1)
DateRows ==
  { DummyRow(TemaPkt, Geom("Point"), "Test Object", << >>, o) : o \in DateTicks \cup { NaT } }
  \cup { [ DummyRow(TemaPkt, Geom("Point"), "Test Object", << >>, o)
             EXCEPT !.cvr_kode = OtherCvr ] : o \in DateTicks }
DateVKs ==
  { [ EmptyVK EXCEPT !["GeoFA_5800_fac_pkt"] = rows,
                     !["GeoFA_5802_fac_li"] =
                        << DummyRow(TemaLi, Geom("LineString"), "Test Object", << >>, NewTime) >> ] :
      rows \in SeqsUpTo(DateRows, MaxDateRows) }

DateInit ==
  /\ vk \in DateVKs
  /\ geofa = EmptyGeoFA
  /\ AtRest

DateCall(start, end, layer_name) ==
  /\ pc = "Idle"
  /\ vk_objects' = get_objects_by_date(vk, start, end, layer_name)
  /\ origin' = RowOrigins(vk, start, end, layer_name)
  /\ call' = [ op |-> "get_objects_by_date", start |-> start, end |-> end,
               layer_name |-> layer_name ]
  /\ pc' = "Returned"
  /\ UNCHANGED << store, runs, written, since_date, needs_sync, already_synced,
                  sync_details, i, success_count, error_count, result, vk_before >>
  /\ UNCHANGED env

DateNext ==
  \E start \in DateTicks, end \in DateTicks \cup { NoEnd },
     layer_name \in { NoLayer, "GeoFA_5800_fac_pkt" } :
    DateCall(start, end, layer_name)
SpecDate == DateInit /\ [][DateNext]_vars

\* ---- GeoFA.create_object(temakode, geometry)
OtherTema == TemaLi + 1
CreateTemakodes == Temakodes \cup { OtherTema }
CreateGeometries ==
  { Geom(t) : t \in SupportedTypes \cup { "GeometryCollection" } }
  \cup { [ geom_type |-> "Point", coords |-> 1 ] }

GeoFAInit ==
  /\ vk = EmptyVK
  /\ geofa = EmptyGeoFA
  /\ AtRest

GeoFACreate(temakode, geometry) ==
  /\ pc = "Idle"
  /\ next_uuid < MaxCreates
  /\ LET c == create_object(geofa, next_uuid, temakode, geometry)
     IN  /\ geofa' = c.geofa
         /\ next_uuid' = c.next_uuid
         /\ call' = [ op |-> "create_object", temakode |-> temakode, geometry |-> geometry,
                      raised |-> c.raised, id |-> c.id, before |-> geofa ]
  /\ UNCHANGED << vk, pc, runs, written, locals >>
  /\ UNCHANGED env

GeoFANext == \E temakode \in CreateTemakodes, geometry \in CreateGeometries :
               GeoFACreate(temakode, geometry)
SpecGeoFA == GeoFAInit /\ [][GeoFANext]_vars

\* ---- VK.update_objekt_id(layer_name, fid, new_objekt_id)
PatchVKs == { v \in ClonedVKs : Total(v) <= MaxPatchRecords }
PatchLayers == VKLayerNames \cup { LayerNameOther }
PatchFids == (0 - 1)..MaxPatchRecords
PatchIds == { UuidText(1), UuidText(2) }

VKInit ==
  /\ vk \in PatchVKs
  /\ geofa = EmptyGeoFA
  /\ AtRest

VKUpdate(layer_name, fid, new_objekt_id) ==
  /\ pc = "Idle"
  /\ LET u == update_objekt_id(vk, layer_name, fid, new_objekt_id)
     IN  /\ vk' = u.vk
         /\ call' = [ op |-> "update_objekt_id", layer_name |-> layer_name, fid |-> fid,
                      new_objekt_id |-> new_objekt_id, raised |-> u.raised,
                      returned |-> None, before |-> vk ]
  /\ pc' = "Returned"
  /\ UNCHANGED << geofa, next_uuid, runs, written, locals >>
  /\ UNCHANGED env

VKNext == \E layer_name \in PatchLayers, fid \in PatchFids, new_objekt_id \in PatchIds :
            VKUpdate(layer_name, fid, new_objekt_id)
SpecVK == VKInit /\ [][VKNext]_vars

\* ---- the cloners: GeodatabaseCloner.run_clone and clone_geofa_database
\* every variable of the sync run at rest, both stores empty
SyncIdle ==
  /\ vk = EmptyVK
  /\ geofa = EmptyGeoFA
  /\ next_uuid = 0
  /\ pc = "Idle"
  /\ runs = 0
  /\ written = {}
  /\ call = NoCall
  /\ LocalsInit

CloneRows ==
  { DummyRow(TemaPkt, Geom("Point"), "Test Object", << >>, NewTime),
    DummyRow(TemaPkt, Geom("Point"), "Test Object", KnownId, OldTime) }
CloneLayers == SeqsUpTo(CloneRows, MaxCloneRecords)
OneRow == << DummyRow(TemaPkt, Geom("Point"), "Test Object", KnownId, OldTime) >>

\* the legacy geodatabase: absent, or any of the three feature classes, the
\* point class with any records
GdbOf(S, rows) ==
  LET InS(n) == n \in S
      names == SelectSeq(all_layers, InS)
  IN  Container([ k \in 1..Len(names) |->
                    Layer(names[k], IF names[k] = "GeoFA_5800_fac_pkt" THEN rows ELSE OneRow) ])
GdbFiles ==
  { NoFile } \cup { GdbOf(S, rows) : S \in SUBSET VKLayerNames, rows \in CloneLayers }

\* the schema files: each absent, unreadable as JSON, without a name, or
\* the descriptor of its feature class
SchemaKinds == { "missing", "badjson", "noname", "ok" }
SchemaFiles ==
  { [ path \in SchemaPaths |->
        CASE kind[path] = "missing" -> NoSchema
          [] kind[path] = "badjson" -> BadJson
          [] kind[path] = "noname" -> NoNameKey
          [] kind[path] = "ok" -> Descriptor(TableOf(path)) ] :
      kind \in [ SchemaPaths -> SchemaKinds ] }

\* the output file before a clone: absent, or left by an earlier clone of
\* other data
PriorOutputs(layer_name) ==
  { NoFile,
    Container(<< Layer("leftover", OneRow) >>),
    Container(<< Layer(layer_name, OneRow \o OneRow) >>) }

\* a source container of clone_geofa_database: absent, or up to
\* MaxSourceLayers layers of distinct names with records from R
SourceLayers(path, R) ==
  { Layer(n, r) : n \in { basename_without_gpkg(path), "extra" }, r \in R }
SourceFiles(path, R) ==
  { NoFile } \cup
  { Container(ls) :
      ls \in { q \in SeqsUpTo(SourceLayers(path, R), MaxSourceLayers) :
                 \A a, b \in 1..Len(q) : a # b => q[a].name # q[b].name } }
PlainSource(path) == Container(<< Layer(basename_without_gpkg(path), OneRow) >>)

\* the files before the first clone: those of run_clone in any state with
\* plain source containers, or those of clone_geofa_database in any state
\* with no geodatabase
CloneFileSystems(g, sc, vk_out, geofa_out, s1, s2, s3) ==
  [ gdb |-> g, schema |-> sc, vk_out |-> vk_out, geofa_out |-> geofa_out,
    src |-> [ path \in SourcePaths |->
                IF path = "5800_fac_pkt.gpkg" THEN s1
                ELSE IF path = "5801_fac_fl.gpkg" THEN s2
                ELSE s3 ] ]

CloneInit ==
  /\ SyncIdle
  /\ \/ \E g \in GdbFiles, sc \in SchemaFiles, o \in PriorOutputs("GeoFA_5800_fac_pkt") :
          fs = CloneFileSystems(g, sc, o, NoFile, PlainSource("5800_fac_pkt.gpkg"),
                                PlainSource("5801_fac_fl.gpkg"),
                                PlainSource("5802_fac_li.gpkg"))
     \/ \E o \in PriorOutputs("5800_fac_pkt"),
           s1 \in SourceFiles("5800_fac_pkt.gpkg", CloneLayers),
           s2 \in SourceFiles("5801_fac_fl.gpkg", { OneRow }),
           s3 \in { NoFile, PlainSource("5802_fac_li.gpkg") } :
          fs = CloneFileSystems(NoFile, [ path \in SchemaPaths |-> NoSchema ], NoFile, o,
                                s1, s2, s3)
  /\ clone_log = << >>
  /\ conn = [ o \in StoreObjects |-> NotConstructed ]
  /\ procs = [ p \in Callers |-> NotCalled ]
  /\ trace = << >>
  /\ last_run = NoRun

\* cloner.run_clone()
RunClone ==
  /\ Len(clone_log) < MaxCloneRuns
  /\ LET r == run_clone(fs)
     IN  /\ fs' = r.fs
         /\ clone_log' = Append(clone_log, [ op |-> "run_clone", before |-> fs,
                                             after |-> r.fs, raised |-> r.raised ])
  /\ UNCHANGED << store, pc, runs, written, call, locals, conn, procs, trace, last_run >>

\* clone_geofa_database()
CloneGeoFA ==
  /\ Len(clone_log) < MaxCloneRuns
  /\ LET r == clone_geofa_database(fs)
     IN  /\ fs' = r.fs
         /\ clone_log' = Append(clone_log, [ op |-> "clone_geofa_database", before |-> fs,
                                             after |-> r.fs, raised |-> r.raised ])
  /\ UNCHANGED << store, pc, runs, written, call, locals, conn, procs, trace, last_run >>

CloneNext == RunClone \/ CloneGeoFA
SpecClone == CloneInit /\ [][CloneNext]_vars

\* ---- the connection of a store object: VK.close, GeoFA.close and the
\* ---- context managers
\* close(): the engine is disposed when self.engine is set; nothing assigns
\* self.engine in close
close(c) ==
  IF c.engine # None
  THEN [ c EXCEPT !.closes = @ + 1, !.disposes = @ + 1 ]
  ELSE [ c EXCEPT !.closes = @ + 1 ]

ConnInit ==
  /\ SyncIdle
  /\ EnvInit

\* VK(config) or GeoFA(config): __init__ connects
Construct(o) ==
  /\ ~conn[o].constructed
  /\ conn' = [ conn EXCEPT ![o] = Connected ]
  /\ UNCHANGED << store, pc, runs, written, call, locals, fs, clone_log, procs, trace, last_run >>

\* vk.close() or geofa.close(), on an object of its own or on the one a
\* DatabaseSync holds
Close(o) ==
  /\ conn[o].constructed
  /\ conn[o].closes < MaxCloses
  /\ conn' = [ conn EXCEPT ![o] = close(@) ]
  /\ UNCHANGED << store, pc, runs, written, call, locals, fs, clone_log, procs, trace, last_run >>

\* VK.__exit__ or GeoFA.__exit__: the with-block of a store object is left
StoreExit(o) ==
  /\ conn[o].constructed
  /\ conn[o].closes < MaxCloses
  /\ conn' = [ conn EXCEPT ![o] = close(@) ]
  /\ UNCHANGED << store, pc, runs, written, call, locals, fs, clone_log, procs, trace, last_run >>

\* DatabaseSync.__enter__: both store objects are constructed
Enter ==
  /\ ~conn["db_sync.vk"].constructed
  /\ ~conn["db_sync.geofa"].constructed
  /\ conn' = [ conn EXCEPT !["db_sync.vk"] = Connected, !["db_sync.geofa"] = Connected ]
  /\ UNCHANGED << store, pc, runs, written, call, locals, fs, clone_log, procs, trace, last_run >>

\* DatabaseSync.__exit__: self.vk and self.geofa are closed when set
Exit ==
  /\ conn["db_sync.vk"].constructed
  /\ conn["db_sync.geofa"].constructed
  /\ conn["db_sync.vk"].closes < MaxCloses
  /\ conn["db_sync.geofa"].closes < MaxCloses
  /\ conn' = [ conn EXCEPT !["db_sync.vk"] = close(@), !["db_sync.geofa"] = close(@) ]
  /\ UNCHANGED << store, pc, runs, written, call, locals, fs, clone_log, procs, trace, last_run >>

ConnNext ==
  \/ \E o \in { "vk", "geofa" } : Construct(o)
  \/ \E o \in StoreObjects : Close(o)
  \/ \E o \in { "vk", "geofa" } : StoreExit(o)
  \/ Enter
  \/ Exit
SpecConn == ConnInit /\ [][ConnNext]_vars

\* ---- two callers of VK.update_objekt_id on one container, their reads and
\* ---- writes interleaved in any order
RaceInit ==
  /\ vk \in PatchVKs
  /\ geofa = EmptyGeoFA
  /\ AtRest

\* caller p enters update_objekt_id and goes as far as the frame in memory
PatchRead(p, layer_name, fid) ==
  /\ procs[p].pc = "idle"
  /\ LET u == update_read(vk, layer_name, fid, UuidText(p))
     IN  procs' = [ procs EXCEPT ![p] =
                      [ pc |-> IF u.raised THEN "failed" ELSE "read",
                        layer_name |-> layer_name, fid |-> fid,
                        new_objekt_id |-> UuidText(p), gdf |-> u.gdf ] ]
  /\ trace' = Append(trace, [ p |-> p, step |-> "read" ])
  /\ UNCHANGED << store, pc, runs, written, call, locals, fs, clone_log, conn, last_run >>

\* caller p writes its frame back and returns
PatchWrite(p) ==
  /\ procs[p].pc = "read"
  /\ vk' = update_write(vk, procs[p].layer_name, procs[p].fid, procs[p].gdf)
  /\ procs' = [ procs EXCEPT ![p].pc = "done" ]
  /\ trace' = Append(trace, [ p |-> p, step |-> "write" ])
  /\ UNCHANGED << geofa, next_uuid, pc, runs, written, call, locals, fs, clone_log, conn, last_run >>

RaceNext ==
  \/ \E p \in Callers, layer_name \in PatchLayers, fid \in PatchFids :
       PatchRead(p, layer_name, fid)
  \/ \E p \in Callers : PatchWrite(p)
SpecRace == RaceInit /\ [][RaceNext]_vars

\* ===================================================== claims on the sync run
\* positions of the records of a container
Positions(c) == UNION { { << l, p >> : p \in 1..Len(c[l]) } : l \in DOMAIN c }
\* the positions of the records of a container that carry objekt_id id
Holders(c, id) == { lp \in Positions(c) : c[lp[1]][lp[2]].objekt_id = id }

\* a text of the objekt_id column that is null, empty or whitespace only
Blank(t) == t = NoneId \/ \A k \in 1..Len(t) : t[k] \in Whitespace

\* the run went through steps 3 and 4 and has returned its result
RunCompleted == pc = "Done" /\ needs_sync # << >>

\* no create_object call and no patch-back call of the run failed
NoFailure == Len(sync_details) = Len(needs_sync) /\ error_count = 0

\* C1: after a run without a failure, every VK record that was fetched and
\* unsynced carries the identifier of the GeoFA record created for it
\* (same geometry, same temakode).
C1_UnsyncedRecordGetsItsIdentifier ==
  (RunCompleted /\ NoFailure) =>
    \A k \in 1..Len(needs_sync) :
      LET o == origin[needs_sync[k].idx + 1]
          id == sync_details[k].new_objekt_id
      IN  /\ vk[o.layer][o.fid + 1].objekt_id = id
          /\ \E lp \in Holders(geofa, id) :
               /\ geofa[lp[1]][lp[2]].geometry = needs_sync[k].rec.geometry
               /\ geofa[lp[1]][lp[2]].temakode = needs_sync[k].rec.temakode

\* C2: every fetched row is tagged with the FID it has in its layer and with
\* that layer: reading the layer at the tagged FID yields the row's record.
C2_RowTaggedWithItsFid ==
  pc = "Filtering" =>
    \A p \in 1..Len(vk_objects) :
      LET layer_name == _get_layer_name_from_temakode(vk_objects[p].rec.temakode)
          fid == vk_objects[p].idx
      IN  /\ layer_name = origin[p].layer
          /\ fid = origin[p].fid
          /\ fid + 1 \in 1..Len(vk[layer_name])
          /\ vk[layer_name][fid + 1] = vk_objects[p].rec

\* C3: an objekt_id a run wrote into a VK record is the objekt_id of exactly
\* one GeoFA record, and at most one VK record carries it.
C3_WrittenIdIdentifiesOneRecord ==
  \A id \in written :
    /\ Cardinality(Holders(geofa, id)) = 1
    /\ Cardinality(Holders(vk, id)) <= 1

C3_Witness ==
  /\ runs >= 1
  /\ Cardinality(written) >= 2
  /\ \A id \in written : Cardinality(Holders(vk, id)) = 1

\* entry k of the detail list names a FID its layer has
PatchApplies(k) ==
  /\ sync_details[k].layer_name \in DOMAIN vk
  /\ sync_details[k].fid + 1 \in 1..Len(vk[sync_details[k].layer_name])

\* C9: each patch-back is counted on its own: newly_synced is the number of
\* entries whose patch-back succeeded, errors the number that failed, and
\* every entry that could be patched was patched, also after a failed one.
C9_PatchBackCountedPerEntry ==
  /\ pc = "PatchingBack" => success_count + error_count = i - 1
  /\ RunCompleted =>
       /\ result.newly_synced =
            Cardinality({ k \in 1..Len(sync_details) : PatchApplies(k) })
       /\ result.errors =
            Cardinality({ k \in 1..Len(sync_details) : ~PatchApplies(k) })
       /\ \A k \in 1..Len(sync_details) :
            PatchApplies(k) =>
              vk[sync_details[k].layer_name][sync_details[k].fid + 1].objekt_id
                = sync_details[k].new_objekt_id

C9_Witness ==
  /\ RunCompleted
  /\ result.newly_synced >= 1
  /\ result.errors >= 1
  /\ \E k, m \in 1..Len(sync_details) : k < m /\ ~PatchApplies(k) /\ PatchApplies(m)

\* create_object accepts the row: its temakode is a number and its geometry
\* one of the six supported shapes
Creatable(r) ==
  /\ r.rec.temakode # NaN
  /\ r.rec.geometry.geom_type \in
       { "Point", "MultiPoint", "Polygon", "MultiPolygon", "LineString", "MultiLineString" }

\* C10: when the loop of step 3 is over, the detail list holds one entry
\* {fid, layer_name, new identifier} for each unsynced row whose creation
\* succeeded, in order, and none for a row whose creation failed; the rows
\* after a failed one are created too.
C10_DetailsForSuccessesOnly ==
  (pc = "PatchingBack" \/ RunCompleted) =>
    LET created == SelectSeq(needs_sync, Creatable)
    IN  /\ Len(sync_details) = Len(created)
        /\ \A k \in 1..Len(created) :
             /\ sync_details[k].fid = created[k].idx
             /\ sync_details[k].layer_name
                  = _get_layer_name_from_temakode(created[k].rec.temakode)
             /\ \E lp \in Holders(geofa, sync_details[k].new_objekt_id) :
                  geofa[lp[1]][lp[2]].geometry = created[k].rec.geometry

C10_Witness ==
  /\ pc = "PatchingBack"
  /\ \E k, m \in 1..Len(needs_sync) :
       /\ k < m
       /\ ~Creatable(needs_sync[k])
       /\ Creatable(needs_sync[m])
       /\ \E e \in 1..Len(sync_details) : sync_details[e].fid = needs_sync[m].idx


\* C11: the errors field of the result counts every failure of the run: the
\* unsynced rows whose creation in GeoFA failed plus the entries whose
\* patch-back failed.
C11_ErrorsCountEveryFailure ==
  RunCompleted =>
    result.errors =
      (Len(needs_sync) - Len(SelectSeq(needs_sync, Creatable)))
      + Cardinality({ k \in 1..Len(sync_details) : ~PatchApplies(k) })

\* the place of a phase in the order of a run
Rank(phase) ==
  CASE phase = "Idle" -> 0
    [] phase = "Fetching" -> 1
    [] phase = "Filtering" -> 2
    [] phase = "Creating" -> 3
    [] phase = "PatchingBack" -> 4
    [] phase = "Done" -> 5

\* C12: a run goes through its phases forwards only (Fetching, Filtering,
\* Creating, PatchingBack, Done) until it returns: the VK store is fetched
\* in one step of the Fetching phase, identifiers are drawn and GeoFA records
\* created in the Creating phase only, patch-backs are made and counted in
\* the PatchingBack phase only, so every create_object call of a run comes
\* after its fetch and before its first patch-back.
C12_PhasesOnlyForwards ==
  [][ /\ Rank(pc') >= Rank(pc) \/ (pc = "Done" /\ pc' = "Idle")
      /\ pc = "Fetching" => pc' # "Fetching"
      /\ vk_objects' # vk_objects => (pc = "Fetching" \/ pc' = "Idle")
      /\ (geofa' # geofa \/ next_uuid' # next_uuid) => (pc = "Creating" /\ pc' = "Creating")
      /\ vk' # vk => pc \in { "Idle", "PatchingBack" }
      /\ (pc' # "Idle" /\ success_count' + error_count' # success_count + error_count)
           => (pc = "PatchingBack" /\ pc' = "PatchingBack")
    ]_vars

C12_Witness ==
  /\ pc = "Done"
  /\ runs >= 1
  /\ Len(sync_details) >= 2
  /\ result.newly_synced >= 1
  /\ Len(sync_details) < Len(needs_sync)

\* the records of a container without an objekt_id
Unsynced(c) == { lp \in Positions(c) : Blank(c[lp[1]][lp[2]].objekt_id) }

\* C20: a run without a threshold fetches every record of the three layers
\* whatever its creation timestamp: total_objects is the number of records
\* of the container and every record without an objekt_id is processed.
C20_NoThresholdFetchesEverything ==
  (pc = "Done" /\ since_date = NoSince) =>
    /\ result.total_objects = Total(vk_before)
    /\ Len(needs_sync) = Cardinality(Unsynced(vk_before))


\* C22: a run never changes the objekt_id of a VK record that had one before
\* the run, whether the record was fetched or not.
C22_SyncedRecordKeepsItsId ==
  pc # "Idle" =>
    \A lp \in Positions(vk_before) :
      ~Blank(vk_before[lp[1]][lp[2]].objekt_id) =>
        vk[lp[1]][lp[2]].objekt_id = vk_before[lp[1]][lp[2]].objekt_id


\* the run that has just ended started on the VK container the run before
\* left, with the same threshold, and the run before reported no error
RerunAfterCleanRun ==
  /\ pc = "Done"
  /\ runs >= 1
  /\ last_run.since = since_date
  /\ last_run.vk = vk_before
  /\ last_run.errors = 0

\* C23: a run repeated with the same threshold right after a run that
\* reported no error creates nothing: newly_synced is 0, already_synced is
\* total_objects and the GeoFA store holds the records it held before.
C23_RerunCreatesNothing ==
  RerunAfterCleanRun =>
    /\ result.newly_synced = 0
    /\ result.already_synced = result.total_objects
    /\ geofa = last_run.geofa


\* ============================================ claims on the direct calls
FrameRows(df) == { df[p] : p \in 1..Len(df) }

\* C4: the unsynced filter returns exactly the rows whose objekt_id is null,
\* empty or whitespace only, each once, in order and unmodified.
C4_FilterKeepsExactlyBlankIds ==
  pc = "Returned" =>
    /\ \A r \in FrameRows(vk_objects) :
         r \in FrameRows(needs_sync) <=> Blank(r.rec.objekt_id)
    /\ FrameRows(needs_sync) \subseteq FrameRows(vk_objects)
    /\ \A q1, q2 \in 1..Len(needs_sync) :
         q1 < q2 => needs_sync[q1].idx < needs_sync[q2].idx

C4_Witness ==
  /\ pc = "Returned"
  /\ \E r \in FrameRows(needs_sync) :
       r.rec.objekt_id # NoneId /\ Len(r.rec.objekt_id) = MaxTextLen
  /\ \E r \in FrameRows(vk_objects) \ FrameRows(needs_sync) :
       \E k \in 1..Len(r.rec.objekt_id) : r.rec.objekt_id[k] \in Whitespace

\* the layers a call of get_objects_by_date scans
Scanned == IF call.layer_name # NoLayer THEN { call.layer_name } ELSE VKLayerNames

\* C5: with an end given, a record of a scanned layer is returned if and
\* only if start <= oprettet <= end; nothing but the creation timestamp
\* decides.
C5_ReturnedIffInsideWindow ==
  (call.op = "get_objects_by_date" /\ call.end # NoEnd) =>
    \A l \in Scanned : \A p \in 1..Len(vk[l]) :
      ( \E q \in 1..Len(origin) : origin[q] = [ layer |-> l, fid |-> p - 1 ] )
        <=> ( /\ vk[l][p].oprettet # NaT
              /\ call.start <= vk[l][p].oprettet
              /\ vk[l][p].oprettet <= call.end )

\* the layer of the GeoFA container for a geometry shape
LayerOfShape(geom_type) ==
  CASE geom_type \in { "Point", "MultiPoint" } -> "5800_fac_pkt"
    [] geom_type \in { "Polygon", "MultiPolygon" } -> "5801_fac_fl"
    [] geom_type \in { "LineString", "MultiLineString" } -> "5802_fac_li"

Created == call.op = "create_object" /\ ~call.raised

\* C6: create_object picks the layer from the geometry shape alone; the
\* record keeps the temakode of the caller also when it names another layer.
C6_LayerFromGeometryAlone ==
  Created =>
    /\ Holders(geofa, call.id) =
         { << LayerOfShape(call.geometry.geom_type),
              Len(geofa[LayerOfShape(call.geometry.geom_type)]) >> }
    /\ \A lp \in Holders(geofa, call.id) : geofa[lp[1]][lp[2]].temakode = call.temakode

C6_Witness ==
  /\ Created
  /\ call.temakode = TemaFl
  /\ call.geometry.geom_type = "MultiPoint"
  /\ Len(geofa["5800_fac_pkt"]) = 1

\* the fixed name of a temakode
FixedName(temakode) ==
  CASE temakode = 5800 -> "t_5800_fac_pkt_t"
    [] temakode = 5801 -> "t_5801_fac_fl_t"
    [] temakode = 5802 -> "t_5802_fac_li_t"
    [] OTHER -> None

\* C7: a successful create_object leaves the target layer as it was,
\* followed by one new record: the returned identifier, the temakode and
\* geometry given, the fixed temanavn, every other attribute null; the other
\* layers are unchanged.
C7_AppendsOneRecord ==
  Created =>
    LET target == LayerOfShape(call.geometry.geom_type)
    IN  /\ geofa[target] =
             Append(call.before[target],
               [ objekt_id |-> call.id, temakode |-> call.temakode,
                 geometry |-> call.geometry, temanavn |-> FixedName(call.temakode),
                 oprettet |-> NaT, cvr_kode |-> NaN, navn |-> None ])
        /\ \A l \in DOMAIN geofa \ { target } : geofa[l] = call.before[l]
        /\ DOMAIN geofa = DOMAIN call.before

C7_Witness ==
  /\ Created
  /\ call.before[LayerOfShape(call.geometry.geom_type)] # << >>
  /\ \E l \in DOMAIN geofa \ { LayerOfShape(call.geometry.geom_type) } : geofa[l] # << >>

\* update_objekt_id was called on a layer of the container with a fid the
\* layer does not have
AbsentFid ==
  /\ call.op = "update_objekt_id"
  /\ call.layer_name \in DOMAIN call.before
  /\ call.fid \notin 0..(Len(call.before[call.layer_name]) - 1)

\* C8 as stated: with an absent fid, update_objekt_id returns a failure flag
\* and does not raise.
C8_AbsentFidReturnsFailureFlag ==
  AbsentFid => (~call.raised /\ call.returned = "False")

\* C8 amended: with an absent fid, update_objekt_id raises; no flag is
\* returned.
C8_AbsentFidRaises ==
  AbsentFid => (call.raised /\ call.returned = None)

C8_Witness ==
  /\ AbsentFid
  /\ call.raised
  /\ call.fid = Len(call.before[call.layer_name])
  /\ call.fid > 0


\* update_objekt_id was called on a layer of the container with a fid the
\* layer has
PresentFid ==
  /\ call.op = "update_objekt_id"
  /\ call.layer_name \in DOMAIN call.before
  /\ call.fid \in 0..(Len(call.before[call.layer_name]) - 1)

\* C21: a successful update_objekt_id changes the objekt_id of the record at
\* the fid and nothing else: the layer has the same records in the same
\* order, the patched record keeps every other attribute, the other layers
\* are unchanged.  A call with an absent fid leaves the container unchanged.
C21_PatchChangesOneObjektId ==
  /\ PresentFid =>
       /\ ~call.raised
       /\ DOMAIN vk = DOMAIN call.before
       /\ \A l \in DOMAIN vk \ { call.layer_name } : vk[l] = call.before[l]
       /\ Len(vk[call.layer_name]) = Len(call.before[call.layer_name])
       /\ \A p \in 1..Len(vk[call.layer_name]) :
            IF p = call.fid + 1
            THEN vk[call.layer_name][p] =
                   [ call.before[call.layer_name][p] EXCEPT !.objekt_id = call.new_objekt_id ]
            ELSE vk[call.layer_name][p] = call.before[call.layer_name][p]
  /\ AbsentFid => vk = call.before

C21_Witness ==
  /\ PresentFid
  /\ call.fid >= 1
  /\ Len(vk[call.layer_name]) >= 2
  /\ vk[call.layer_name][call.fid + 1].objekt_id = call.new_objekt_id
  /\ call.before[call.layer_name][call.fid + 1].objekt_id = KnownId
  /\ \E l \in DOMAIN vk \ { call.layer_name } : vk[l] # << >>


\* ================================================== claims on the cloners
\* the destination container of a cloner among the files f
Dest(op, f) == IF op = "run_clone" THEN f.vk_out ELSE f.geofa_out

\* two containers with the same layers and as many records in each
SameShape(a, b) ==
  /\ a.exists = b.exists
  /\ LayerNamesOf(a) = LayerNamesOf(b)
  /\ \A n \in LayerNamesOf(a) : Len(RowsOf(a, n)) = Len(RowsOf(b, n))

\* C13: a cloner run again on the same source leaves its destination with
\* the same layers and the same number of records per layer as its earlier
\* run did: nothing is appended and nothing is left over.
C13_CloneTwiceSameAsOnce ==
  \A k, m \in 1..Len(clone_log) :
    (k < m /\ clone_log[k].op = clone_log[m].op) =>
      SameShape(Dest(clone_log[k].op, clone_log[k].after),
                Dest(clone_log[m].op, clone_log[m].after))

C13_Witness ==
  /\ Len(clone_log) = 2
  /\ clone_log[1].op = "clone_geofa_database"
  /\ clone_log[2].op = "clone_geofa_database"
  /\ ~clone_log[2].raised
  /\ HasLayer(clone_log[1].before.geofa_out, "leftover")
  /\ \A path \in SourcePaths :
       /\ HasLayer(fs.geofa_out, basename_without_gpkg(path))
       /\ RowsOf(fs.geofa_out, basename_without_gpkg(path)) # << >>

\* the layers of the source containers of clone_geofa_database
SourceLayerSet(f) ==
  UNION { { << path, j >> : j \in 1..Len(f.src[path].layers) } : path \in SourcePaths }

\* C14: after a clone that ran to its end, every declared layer is in the
\* destination with the records of the source layer: each feature class a
\* schema descriptor names (run_clone), each layer of each source container
\* (clone_geofa_database), none lost or replaced by another.
C14_CloneKeepsEverySourceLayer ==
  \A k \in 1..Len(clone_log) :
    LET e == clone_log[k]
    IN  /\ (e.op = "run_clone" /\ e.before.gdb.exists /\ ~e.raised) =>
             \A path \in SchemaPaths :
               LET d == e.before.schema[path]
               IN  (d.exists /\ d.json /\ d.has_name /\ HasLayer(e.before.gdb, d.name[Len(d.name)]))
                     => /\ HasLayer(e.after.vk_out, d.name[Len(d.name)])
                        /\ RowsOf(e.after.vk_out, d.name[Len(d.name)])
                             = RowsOf(e.before.gdb, d.name[Len(d.name)])
        /\ (e.op = "clone_geofa_database" /\ ~e.raised) =>
             /\ Len(e.after.geofa_out.layers) = Cardinality(SourceLayerSet(e.before))
             /\ \A pj \in SourceLayerSet(e.before) :
                  /\ HasLayer(e.after.geofa_out, basename_without_gpkg(pj[1]))
                  /\ RowsOf(e.after.geofa_out, basename_without_gpkg(pj[1]))
                       = e.before.src[pj[1]].layers[pj[2]].rows

\* a run_clone call on an existing geodatabase with a schema file missing
\* and every other schema file a descriptor
MissingSchemaOnly(e) ==
  /\ e.op = "run_clone"
  /\ e.before.gdb.exists
  /\ \E path \in SchemaPaths : ~e.before.schema[path].exists
  /\ \A path \in SchemaPaths :
       e.before.schema[path].exists =>
         (e.before.schema[path].json /\ e.before.schema[path].has_name)

\* C15: with a schema file missing, run_clone ends normally, the feature
\* class of the missing file is not in the destination and every feature
\* class whose schema file exists is cloned from the geodatabase, wherever
\* the missing file is in the list.
C15_MissingSchemaFileSkipped ==
  \A k \in 1..Len(clone_log) :
    LET e == clone_log[k]
    IN  MissingSchemaOnly(e) =>
          /\ ~e.raised
          /\ \A path \in SchemaPaths :
               IF e.before.schema[path].exists /\ HasLayer(e.before.gdb, TableOf(path))
               THEN /\ HasLayer(e.after.vk_out, TableOf(path))
                    /\ RowsOf(e.after.vk_out, TableOf(path))
                         = RowsOf(e.before.gdb, TableOf(path))
               ELSE ~HasLayer(e.after.vk_out, TableOf(path))

C15_Witness ==
  \E k \in 1..Len(clone_log) :
    LET e == clone_log[k]
    IN  /\ MissingSchemaOnly(e)
        /\ ~e.before.schema["geofa_5800_fac_pkt.json"].exists
        /\ HasLayer(e.before.gdb, "GeoFA_5800_fac_pkt")
        /\ HasLayer(e.after.vk_out, "GeoFA_5801_fac_fl")
        /\ HasLayer(e.after.vk_out, "GeoFA_5802_fac_li")
        /\ RowsOf(e.after.vk_out, "GeoFA_5802_fac_li") # << >>

\* C24: a failure while one feature class is cloned stays with that feature
\* class: run_clone ends normally whatever the schema files hold, and every
\* feature class with a usable descriptor and a layer in the geodatabase is
\* in the destination, also when it follows a feature class that failed.
C24_CloneFailureContained ==
  \A k \in 1..Len(clone_log) :
    LET e == clone_log[k]
    IN  (e.op = "run_clone" /\ e.before.gdb.exists) =>
          /\ ~e.raised
          /\ \A path \in SchemaPaths :
               LET d == e.before.schema[path]
               IN  (d.exists /\ d.json /\ d.has_name /\ HasLayer(e.before.gdb, TableOf(path)))
                     => /\ HasLayer(e.after.vk_out, TableOf(path))
                        /\ RowsOf(e.after.vk_out, TableOf(path))
                             = RowsOf(e.before.gdb, TableOf(path))


\* C16: a clone started with a source container missing leaves the
\* destination as it was: the geodatabase for run_clone, any of the three
\* source containers for clone_geofa_database.
C16_MissingSourceLeavesDestination ==
  \A k \in 1..Len(clone_log) :
    LET e == clone_log[k]
    IN  /\ (e.op = "run_clone" /\ ~e.before.gdb.exists)
             => e.after.vk_out = e.before.vk_out
        /\ (e.op = "clone_geofa_database"
              /\ \E path \in SourcePaths : ~e.before.src[path].exists)
             => e.after.geofa_out = e.before.geofa_out

\* ============================================== claims on the connections
\* C17: the connection of a store object is released exactly once: the
\* first close disposes the engine, and a later close, explicit or made on
\* leaving a with-block, releases nothing.
C17_ReleasedExactlyOnce ==
  \A o \in StoreObjects :
    conn[o].disposes = IF conn[o].closes >= 1 THEN 1 ELSE 0

\* ====================================== claims on interleaved patch-backs
\* both callers have patched the same layer at two different FIDs
BothPatched ==
  /\ \A p \in Callers : procs[p].pc = "done"
  /\ procs[1].layer_name = procs[2].layer_name
  /\ procs[1].fid # procs[2].fid

\* the record caller p named carries the identifier of caller p
Holds(p) == vk[procs[p].layer_name][procs[p].fid + 1].objekt_id = procs[p].new_objekt_id

\* both callers read before either wrote; one caller returned before the
\* other began
Interleaved == trace[1].step = "read" /\ trace[2].step = "read"
OneAfterTheOther == trace[2].step = "write"

\* C18: two update_objekt_id calls on one layer for two FIDs: run one after
\* the other, the layer holds both identifiers; when both read the layer
\* before either writes, it holds the identifier of the caller that wrote
\* last and not the other one.
C18_InterleavedPatchLosesUpdate ==
  BothPatched =>
    /\ OneAfterTheOther => (Holds(1) /\ Holds(2))
    /\ Interleaved =>
         LET last == trace[Len(trace)].p
         IN  /\ Holds(last)
             /\ \A p \in Callers \ { last } : ~Holds(p)

C18_Witness ==
  /\ BothPatched
  /\ Interleaved
  /\ trace[Len(trace)].p = 1
  /\ Holds(1)
  /\ ~Holds(2)

====
